---- MODULE Spec2Model ----
(***************************************************************************)
(* The DOC service API bindings of services/doc/api/document.go: seven     *)
(* handlers (RegisterDocument, PublishDocument, QueryDocument,             *)
(* ReadDocument, GetImages, DeleteDocument, ListDocuments).  Each builds a *)
(* bce.BceRequest, hands it to cli.SendRequest together with a fresh       *)
(* bce.BceResponse, and turns the outcome into (result, error).            *)
(*                                                                         *)
(* A caller's invocation is a sequence of steps: the handler's entry (the  *)
(* validation and the construction of the request, up to the SendRequest   *)
(* call), then SendRequest, resp.IsFail(), resp.ParseJsonBody() and the    *)
(* return.  The collaborators (transport, codec, parameter methods) live   *)
(* outside document.go; their outcomes are nondeterministic choices.       *)
(***************************************************************************)
EXTENDS Integers, Sequences, FiniteSets, TLC

\* Number of goroutines calling the API against the same client.
NumCallers == 2

Callers == 1..NumCallers

\* The single caller of the sequential specification.
Sequential == {p \in Callers : p = 1}

VARIABLES
    pc,          \* pc[p]: where caller p is in its invocation
    op,          \* op[p]: the handler caller p is running
    args,        \* args[p]: the handler's arguments (documentId, parameter object)
    req,         \* req[f]: the bce.BceRequest allocated in frame f
    resp,        \* resp[f]: the bce.BceResponse allocated in frame f
    ret,         \* ret[p]: the (result, error) the handler returned
    validation,  \* validation[p]: what the entry's collaborators answered
    transport,   \* transport[p]: what the transport did for p's SendRequest
    sentReq,     \* sentReq[p]: the request the transport saw in p's SendRequest
    nSend,       \* nSend[p]: SendRequest calls of the current invocation
    nIsFail,     \* nIsFail[p]: resp.IsFail() calls of the current invocation
    nParse       \* nParse[p]: resp.ParseJsonBody() calls of the current invocation

vars == <<pc, op, args, req, resp, ret, validation, transport, sentReq,
          nSend, nIsFail, nParse>>

(***************************************************************************)
(* Values                                                                  *)
(***************************************************************************)

\* A nil pointer (a nil parameter object, a nil result, a nil body).
Nil == [nil |-> TRUE]

\* The nil error.
NoErr == [kind |-> "nil", msg |-> ""]

\* errors.New(msg)
ErrorsNew(msg) == [kind |-> "errors.New", msg |-> msg]

\* http method names and header key, bce default content type
POST == "POST"
PUT == "PUT"
GET == "GET"
DELETE == "DELETE"
CONTENT_TYPE == "Content-Type"
DEFAULT_CONTENT_TYPE == "application/json;charset=utf-8"

\* &bce.BceRequest{}
ZeroRequest == [uri |-> "", method |-> "", params |-> <<>>, headers |-> <<>>,
                body |-> Nil]

\* &bce.BceResponse{}
ZeroResponse == [fail |-> FALSE, serviceError |-> NoErr, body |-> ""]

SetUri(r, uri) == [r EXCEPT !.uri = uri]
SetMethod(r, method) == [r EXCEPT !.method = method]
SetParam(r, key, value) == [r EXCEPT !.params = (key :> value) @@ @]
SetHeader(r, key, value) == [r EXCEPT !.headers = (key :> value) @@ @]
SetBody(r, body) == [r EXCEPT !.body = body]

\* fmt.Sprintf("/v2/document/%s", documentId)
UrlPath(documentId) == "/v2/document/" \o documentId

\* strconv.FormatBool
FormatBool(b) == IF b THEN "true" ELSE "false"

DigitChars == <<"0", "1", "2", "3", "4", "5", "6", "7", "8", "9">>

RECURSIVE Digits(_)
Digits(n) ==
    IF n < 10 THEN DigitChars[n + 1]
    ELSE Digits(n \div 10) \o DigitChars[(n % 10) + 1]

\* strconv.FormatInt(n, 10)
FormatInt(n) == IF n < 0 THEN "-" \o Digits(0 - n) ELSE Digits(n)

(***************************************************************************)
(* Collaborators outside document.go                                       *)
(***************************************************************************)

\* regParam.String(): the JSON text of the parameter object.
String(regParam) ==
    IF regParam = Nil THEN "null"
    ELSE "{title:" \o regParam.Title \o ",format:" \o regParam.Format \o "}"

\* bce.NewBodyFromString(playload)
NewBodyFromString(playload) == [content |-> playload]

\* The recognized document statuses of the list filter.
ValidStatus == {"", "UPLOADING", "PROCESSING", "PUBLISHED", "FAILED"}

\* listParam.Check(): the outcomes the validity check can have.  A nil
\* listParam is either refused or dereferenced (a run-time panic); a
\* negative MaxSize or an unrecognized Status is refused; the remaining
\* constraints belong to the service, so the check may accept or refuse.
CheckOutcomes(listParam) ==
    IF listParam = Nil THEN {"err", "panic"}
    ELSE IF listParam.MaxSize < 0 \/ listParam.Status \notin ValidStatus
         THEN {"err"}
    ELSE {"ok", "err"}

CheckErr == ErrorsNew("invalid list param")

\* resp.IsFail()
IsFail(r) == r.fail

\* resp.ServiceError()
ServiceError(r) == r.serviceError

DecodeErr == [kind |-> "json", msg |-> "cannot unmarshal"]

\* resp.ParseJsonBody(result): decodes the body into a result of the type.
ParseJsonBody(r, type) ==
    IF r.body = "malformed" THEN [result |-> [type |-> type, from |-> ""], err |-> DecodeErr]
    ELSE [result |-> [type |-> type, from |-> r.body], err |-> NoErr]

(***************************************************************************)
(* Inputs and collaborator outcomes                                        *)
(***************************************************************************)

TransportErrs == {[kind |-> "net", msg |-> "connection refused"],
                  [kind |-> "net", msg |-> "timeout"]}

ServiceErrs == {[kind |-> "BceServiceError", msg |-> "NotFound"],
                [kind |-> "BceServiceError", msg |-> "AccessDenied"]}

Bodies == {"{...}", "malformed"}

\* What cli.SendRequest(req, resp) can do: return an error, or fill resp.
Outcomes(errs, serviceErrs, bodies) ==
    {[err |-> e, resp |-> ZeroResponse] : e \in errs}
    \cup {[err |-> NoErr, resp |-> [fail |-> TRUE, serviceError |-> s, body |-> b]] :
             s \in serviceErrs, b \in bodies}
    \cup {[err |-> NoErr, resp |-> [fail |-> FALSE, serviceError |-> NoErr, body |-> b]] :
             b \in bodies}

\* The inputs of the sequential specification.
FullInputs ==
    [regParams |-> {Nil, [Title |-> "t", Format |-> "pdf"]},
     stringErrs |-> {NoErr, [kind |-> "json", msg |-> "cannot marshal"]},
     bodyErrs |-> {NoErr, [kind |-> "bce", msg |-> "invalid body"]},
     documentIds |-> {"", "abc123"},
     queryParams |-> {Nil, [Https |-> TRUE], [Https |-> FALSE]},
     readParams |-> {Nil} \cup {[ExpireInSeconds |-> n] : n \in {-1, 0, 3600}},
     listParams |-> {Nil} \cup [Status : {"", "PUBLISHED", "BOGUS"},
                                Marker : {"", "m1"},
                                MaxSize : {-1, 0, 20}],
     outcomes |-> Outcomes(TransportErrs, ServiceErrs, Bodies)]

\* The inputs of the concurrent specification.
ConcInputs ==
    [regParams |-> {[Title |-> "t", Format |-> "pdf"]},
     stringErrs |-> {NoErr},
     bodyErrs |-> {NoErr},
     documentIds |-> {"abc123"},
     queryParams |-> {Nil, [Https |-> TRUE]},
     readParams |-> {[ExpireInSeconds |-> 3600]},
     listParams |-> {[Status |-> "", Marker |-> "m1", MaxSize |-> 20]},
     outcomes |-> Outcomes({[kind |-> "net", msg |-> "timeout"]},
                           {[kind |-> "BceServiceError", msg |-> "NotFound"]},
                           Bodies)]

(***************************************************************************)
(* The handlers of document.go, as functions                               *)
(***************************************************************************)

\* Bug variant: one request and one response shared by every invocation
\* (package-level descriptors instead of per-call allocations).
Frame_Shared(p) == 1

\* The frame holding the req and resp an invocation allocates for itself.
Frame(p) == p

Ops == {"RegisterDocument", "PublishDocument", "QueryDocument", "ReadDocument",
        "GetImages", "DeleteDocument", "ListDocuments"}

\* The result type of the handlers that return one.
ResultType(o) ==
    CASE o = "RegisterDocument" -> "RegDocumentResp"
      [] o = "QueryDocument" -> "QueryDocumentResp"
      [] o = "ReadDocument" -> "ReadDocumentResp"
      [] o = "GetImages" -> "GetImagesResp"
      [] o = "ListDocuments" -> "ListDocumentsResp"
      [] OTHER -> ""

HasResult(o) == ResultType(o) # ""

\* Bug variant: the nil check of regParam is missing.
RegisterDocumentValidate_NoNilCheck(regParam, stringErr, bodyErr) ==
    IF stringErr # NoErr THEN stringErr ELSE bodyErr

\* RegisterDocument, lines 38-48: the error the entry returns, NoErr if none.
RegisterDocumentValidate(regParam, stringErr, bodyErr) ==
    IF regParam = Nil THEN ErrorsNew("param cannot be nil")
    ELSE IF stringErr # NoErr THEN stringErr
    ELSE bodyErr

\* ListDocuments, lines 224-227: the error the entry returns, NoErr if none.
ListDocumentsValidate(listParam, checkOutcome) ==
    IF checkOutcome = "err" THEN CheckErr ELSE NoErr

RegisterDocumentRequest(body) ==
    SetBody(
      SetHeader(
        SetMethod(
          SetParam(
            SetUri(ZeroRequest, "/v2/document"),
            "register", ""),
          POST),
        CONTENT_TYPE, DEFAULT_CONTENT_TYPE),
      body)

PublishDocumentRequest(documentId) ==
    SetHeader(
      SetMethod(
        SetParam(
          SetUri(ZeroRequest, UrlPath(documentId)),
          "publish", ""),
        PUT),
      CONTENT_TYPE, DEFAULT_CONTENT_TYPE)

QueryDocumentRequest(documentId, queryParam) ==
    LET r1 == SetUri(ZeroRequest, UrlPath(documentId))
        r2 == IF queryParam # Nil
              THEN SetParam(r1, "https", FormatBool(queryParam.Https))
              ELSE r1
    IN SetHeader(SetMethod(r2, GET), CONTENT_TYPE, DEFAULT_CONTENT_TYPE)

\* Bug variant: expireInSeconds is always set, empty when readParam is nil.
ReadDocumentRequest_AlwaysExpire(documentId, readParam) ==
    LET r1 == SetParam(SetUri(ZeroRequest, UrlPath(documentId)), "read", "")
        r2 == SetParam(r1, "expireInSeconds",
                       IF readParam # Nil THEN FormatInt(readParam.ExpireInSeconds) ELSE "")
    IN SetHeader(SetMethod(r2, GET), CONTENT_TYPE, DEFAULT_CONTENT_TYPE)

ReadDocumentRequest(documentId, readParam) ==
    LET r1 == SetParam(SetUri(ZeroRequest, UrlPath(documentId)), "read", "")
        r2 == IF readParam # Nil
              THEN SetParam(r1, "expireInSeconds", FormatInt(readParam.ExpireInSeconds))
              ELSE r1
    IN SetHeader(SetMethod(r2, GET), CONTENT_TYPE, DEFAULT_CONTENT_TYPE)

\* Bug variant: the discriminator copied from ReadDocument.
GetImagesRequest_ReadKey(documentId) ==
    SetHeader(
      SetMethod(
        SetParam(
          SetUri(ZeroRequest, UrlPath(documentId)),
          "read", ""),
        GET),
      CONTENT_TYPE, DEFAULT_CONTENT_TYPE)

GetImagesRequest(documentId) ==
    SetHeader(
      SetMethod(
        SetParam(
          SetUri(ZeroRequest, UrlPath(documentId)),
          "getImages", ""),
        GET),
      CONTENT_TYPE, DEFAULT_CONTENT_TYPE)

\* Bug variant: the Content-Type header is not set.
DeleteDocumentRequest_NoHeader(documentId) ==
    SetMethod(SetUri(ZeroRequest, UrlPath(documentId)), DELETE)

DeleteDocumentRequest(documentId) ==
    SetHeader(
      SetMethod(
        SetUri(ZeroRequest, UrlPath(documentId)),
        DELETE),
      CONTENT_TYPE, DEFAULT_CONTENT_TYPE)

ListDocumentsRequest(listParam) ==
    LET r1 == SetMethod(SetUri(ZeroRequest, "/v2/document/"), GET)
        r2 == IF listParam.Status # ""
              THEN SetParam(r1, "status", listParam.Status)
              ELSE r1
        r3 == IF listParam.Marker # ""
              THEN SetParam(r2, "marker", listParam.Marker)
              ELSE r2
    IN IF listParam.MaxSize # 0
       THEN SetParam(r3, "maxSize", FormatInt(listParam.MaxSize))
       ELSE r3

\* Bug variant: the transport's error is wrapped before it is returned.
OnSendRequest_Wrapped(o, sendErr) ==
    IF sendErr # NoErr
    THEN [next |-> "returned",
          ret |-> [result |-> Nil,
                   err |-> [kind |-> "wrapped", msg |-> o \o ": " \o sendErr.msg]]]
    ELSE [next |-> "isfail", ret |-> Nil]

\* Bug variant: the request is sent again after a transport error.
OnSendRequest_Retry(o, sendErr) ==
    IF sendErr # NoErr
    THEN [next |-> "send", ret |-> Nil]
    ELSE [next |-> "isfail", ret |-> Nil]

\* if err := cli.SendRequest(req, resp); err != nil { return nil, err }
OnSendRequest(o, sendErr) ==
    IF sendErr # NoErr
    THEN [next |-> "returned", ret |-> [result |-> Nil, err |-> sendErr]]
    ELSE [next |-> "isfail", ret |-> Nil]

\* Bug variant: the failure check is missing, the body is decoded anyway.
OnIsFail_Unchecked(o, r) ==
    IF HasResult(o) THEN [next |-> "parse", ret |-> Nil]
    ELSE [next |-> "returned", ret |-> [result |-> Nil, err |-> NoErr]]

\* if resp.IsFail() { return nil, resp.ServiceError() }; Publish and Delete
\* return nil after it.
OnIsFail(o, r) ==
    IF IsFail(r)
    THEN [next |-> "returned", ret |-> [result |-> Nil, err |-> ServiceError(r)]]
    ELSE IF HasResult(o) THEN [next |-> "parse", ret |-> Nil]
    ELSE [next |-> "returned", ret |-> [result |-> Nil, err |-> NoErr]]

\* Bug variant: the decode error is dropped and the result returned as is.
OnParseJsonBody_IgnoreErr(o, r) ==
    LET d == ParseJsonBody(r, ResultType(o))
    IN [next |-> "returned", ret |-> [result |-> d.result, err |-> NoErr]]

\* result := &T{}; if err := resp.ParseJsonBody(result); err != nil
\* { return nil, err }; return result, nil
OnParseJsonBody(o, r) ==
    LET d == ParseJsonBody(r, ResultType(o))
    IN IF d.err # NoErr
       THEN [next |-> "returned", ret |-> [result |-> Nil, err |-> d.err]]
       ELSE [next |-> "returned", ret |-> [result |-> d.result, err |-> NoErr]]

(***************************************************************************)
(* The state machine                                                       *)
(***************************************************************************)

NoArgs == [documentId |-> "", param |-> Nil]

\* The answers of the collaborators a handler's entry consults:
\* listParam.Check(), regParam.String(), bce.NewBodyFromString().
NoValidation == [check |-> "none", stringErr |-> NoErr, bodyErr |-> NoErr]

Init ==
    /\ pc = [p \in Callers |-> "idle"]
    /\ op = [p \in Callers |-> "none"]
    /\ args = [p \in Callers |-> NoArgs]
    /\ req = [f \in Callers |-> ZeroRequest]
    /\ resp = [f \in Callers |-> ZeroResponse]
    /\ ret = [p \in Callers |-> Nil]
    /\ validation = [p \in Callers |-> NoValidation]
    /\ transport = [p \in Callers |-> Nil]
    /\ sentReq = [p \in Callers |-> Nil]
    /\ nSend = [p \in Callers |-> 0]
    /\ nIsFail = [p \in Callers |-> 0]
    /\ nParse = [p \in Callers |-> 0]

\* The handler is entered with its arguments.
Enter(p, o, a, v) ==
    /\ pc[p] = "idle"
    /\ op' = [op EXCEPT ![p] = o]
    /\ args' = [args EXCEPT ![p] = a]
    /\ validation' = [validation EXCEPT ![p] = v]
    /\ UNCHANGED <<transport, sentReq, nSend, nIsFail, nParse>>

\* The entry returns (nil, e) before any request exists.
Reject(p, e) ==
    /\ pc' = [pc EXCEPT ![p] = "returned"]
    /\ ret' = [ret EXCEPT ![p] = [result |-> Nil, err |-> e]]
    /\ UNCHANGED <<req, resp>>

\* The entry dereferences a nil parameter object.
Panic(p) ==
    /\ pc' = [pc EXCEPT ![p] = "panicked"]
    /\ UNCHANGED <<req, resp, ret>>

\* The entry has built request r and allocated the response; SendRequest is next.
Proceed(p, r) ==
    /\ pc' = [pc EXCEPT ![p] = "send"]
    /\ req' = [req EXCEPT ![Frame(p)] = r]
    /\ resp' = [resp EXCEPT ![Frame(p)] = ZeroResponse]
    /\ UNCHANGED ret

RegisterDocument(p, I) ==
    \E regParam \in I.regParams, stringErr \in I.stringErrs, bodyErr \in I.bodyErrs :
        LET e == RegisterDocumentValidate(regParam, stringErr, bodyErr)
        IN /\ Enter(p, "RegisterDocument", [documentId |-> "", param |-> regParam],
                    [NoValidation EXCEPT !.stringErr = stringErr, !.bodyErr = bodyErr])
           /\ IF e # NoErr
              THEN Reject(p, e)
              ELSE Proceed(p, RegisterDocumentRequest(NewBodyFromString(String(regParam))))

PublishDocument(p, I) ==
    \E documentId \in I.documentIds :
        /\ Enter(p, "PublishDocument", [documentId |-> documentId, param |-> Nil],
                 NoValidation)
        /\ Proceed(p, PublishDocumentRequest(documentId))

QueryDocument(p, I) ==
    \E documentId \in I.documentIds, queryParam \in I.queryParams :
        /\ Enter(p, "QueryDocument", [documentId |-> documentId, param |-> queryParam],
                 NoValidation)
        /\ Proceed(p, QueryDocumentRequest(documentId, queryParam))

ReadDocument(p, I) ==
    \E documentId \in I.documentIds, readParam \in I.readParams :
        /\ Enter(p, "ReadDocument", [documentId |-> documentId, param |-> readParam],
                 NoValidation)
        /\ Proceed(p, ReadDocumentRequest(documentId, readParam))

GetImages(p, I) ==
    \E documentId \in I.documentIds :
        /\ Enter(p, "GetImages", [documentId |-> documentId, param |-> Nil],
                 NoValidation)
        /\ Proceed(p, GetImagesRequest(documentId))

DeleteDocument(p, I) ==
    \E documentId \in I.documentIds :
        /\ Enter(p, "DeleteDocument", [documentId |-> documentId, param |-> Nil],
                 NoValidation)
        /\ Proceed(p, DeleteDocumentRequest(documentId))

ListDocuments(p, I) ==
    \E listParam \in I.listParams :
        \E checkOutcome \in CheckOutcomes(listParam) :
            LET e == ListDocumentsValidate(listParam, checkOutcome)
            IN /\ Enter(p, "ListDocuments", [documentId |-> "", param |-> listParam],
                        [NoValidation EXCEPT !.check = checkOutcome])
               /\ IF checkOutcome = "panic" THEN Panic(p)
                  ELSE IF e # NoErr THEN Reject(p, e)
                  ELSE Proceed(p, ListDocumentsRequest(listParam))

\* The handler moves on as d says: to its next step, or to its return.
Continue(p, d) ==
    /\ pc' = [pc EXCEPT ![p] = d.next]
    /\ ret' = [ret EXCEPT ![p] = d.ret]

\* cli.SendRequest(req, resp): the transport sees the request and fills the
\* response, or returns an error.
SendRequest(p, I) ==
    /\ pc[p] = "send"
    /\ \E out \in I.outcomes :
        /\ sentReq' = [sentReq EXCEPT ![p] = req[Frame(p)]]
        /\ nSend' = [nSend EXCEPT ![p] = @ + 1]
        /\ transport' = [transport EXCEPT ![p] = out]
        /\ resp' = [resp EXCEPT ![Frame(p)] = out.resp]
        /\ Continue(p, OnSendRequest(op[p], out.err))
    /\ UNCHANGED <<op, args, req, validation, nIsFail, nParse>>

\* resp.IsFail(), and resp.ServiceError() when it fails
CheckIsFail(p) ==
    /\ pc[p] = "isfail"
    /\ nIsFail' = [nIsFail EXCEPT ![p] = @ + 1]
    /\ Continue(p, OnIsFail(op[p], resp[Frame(p)]))
    /\ UNCHANGED <<op, args, req, resp, validation, transport, sentReq, nSend, nParse>>

\* resp.ParseJsonBody(result)
DecodeBody(p) ==
    /\ pc[p] = "parse"
    /\ nParse' = [nParse EXCEPT ![p] = @ + 1]
    /\ Continue(p, OnParseJsonBody(op[p], resp[Frame(p)]))
    /\ UNCHANGED <<op, args, req, resp, validation, transport, sentReq, nSend, nIsFail>>

\* The invocation is over: its frame is dropped and the caller may call again.
Return(p) ==
    /\ pc[p] \in {"returned", "panicked"}
    /\ pc' = [pc EXCEPT ![p] = "idle"]
    /\ op' = [op EXCEPT ![p] = "none"]
    /\ args' = [args EXCEPT ![p] = NoArgs]
    /\ req' = [req EXCEPT ![Frame(p)] = ZeroRequest]
    /\ resp' = [resp EXCEPT ![Frame(p)] = ZeroResponse]
    /\ ret' = [ret EXCEPT ![p] = Nil]
    /\ validation' = [validation EXCEPT ![p] = NoValidation]
    /\ transport' = [transport EXCEPT ![p] = Nil]
    /\ sentReq' = [sentReq EXCEPT ![p] = Nil]
    /\ nSend' = [nSend EXCEPT ![p] = 0]
    /\ nIsFail' = [nIsFail EXCEPT ![p] = 0]
    /\ nParse' = [nParse EXCEPT ![p] = 0]

\* One caller, every input.
Next ==
    \E p \in Sequential :
        \/ RegisterDocument(p, FullInputs)
        \/ PublishDocument(p, FullInputs)
        \/ QueryDocument(p, FullInputs)
        \/ ReadDocument(p, FullInputs)
        \/ GetImages(p, FullInputs)
        \/ DeleteDocument(p, FullInputs)
        \/ ListDocuments(p, FullInputs)
        \/ SendRequest(p, FullInputs)
        \/ CheckIsFail(p)
        \/ DecodeBody(p)
        \/ Return(p)

Spec == Init /\ [][Next]_vars

\* Concurrent callers against the same client.
ConcNext ==
    \E p \in Callers :
        \/ RegisterDocument(p, ConcInputs)
        \/ PublishDocument(p, ConcInputs)
        \/ QueryDocument(p, ConcInputs)
        \/ ReadDocument(p, ConcInputs)
        \/ GetImages(p, ConcInputs)
        \/ DeleteDocument(p, ConcInputs)
        \/ ListDocuments(p, ConcInputs)
        \/ SendRequest(p, ConcInputs)
        \/ CheckIsFail(p)
        \/ DecodeBody(p)
        \/ Return(p)

ConcSpec == Init /\ [][ConcNext]_vars

(***************************************************************************)
(* Properties                                                              *)
(***************************************************************************)

\* The invocation of caller p has handed a request to the transport.
Sent(p) == sentReq[p] # Nil

\* The transport answered p's SendRequest without an error.
Answered(p) == transport[p] # Nil /\ transport[p].err = NoErr

\* C1's case: RegisterDocument with a nil regParam, or ListDocuments whose
\* listParam.Check() returned an error.
ValidationFails(p) ==
    \/ op[p] = "RegisterDocument" /\ args[p].param = Nil
    \/ op[p] = "ListDocuments" /\ validation[p].check = "err"

\* C1: a client-side validation failure (RegisterDocument with a nil
\* parameter object, ListDocuments whose Check() returns an error) returns a
\* nil result and a non-nil error, and SendRequest is not invoked.
C1_ValidationFailureSendsNothing ==
    \A p \in Callers :
        ValidationFails(p) =>
            /\ pc[p] = "returned"
            /\ ret[p].result = Nil
            /\ ret[p].err # NoErr
            /\ nSend[p] = 0
            /\ ~Sent(p)

C1_Witness ==
    \E p \in Callers :
        /\ op[p] = "RegisterDocument"
        /\ args[p].param = Nil
        /\ pc[p] = "returned"
        /\ ret[p].err = ErrorsNew("param cannot be nil")

\* C2: when SendRequest returns no error and resp.IsFail() is true, every
\* handler returns exactly resp.ServiceError() as its error and a nil result,
\* and never calls ParseJsonBody.
C2_ServiceFailureReturnsServiceError ==
    \A p \in Callers :
        (Answered(p) /\ transport[p].resp.fail) =>
            /\ nParse[p] = 0
            /\ pc[p] \in {"isfail", "returned"}
            /\ pc[p] = "returned" =>
                   /\ ret[p].err = transport[p].resp.serviceError
                   /\ ret[p].result = Nil

C2_Witness ==
    \E p \in Callers :
        /\ op[p] = "QueryDocument"
        /\ Answered(p)
        /\ transport[p].resp.fail
        /\ transport[p].resp.body = "{...}"
        /\ pc[p] = "returned"
        /\ ret[p].err = [kind |-> "BceServiceError", msg |-> "NotFound"]

\* C3: when SendRequest returns an error, every handler returns that same
\* error value unchanged and a nil result, and calls neither resp.IsFail()
\* nor resp.ParseJsonBody().
C3_TransportErrorReturnedUnchanged ==
    \A p \in Callers :
        (transport[p] # Nil /\ transport[p].err # NoErr) =>
            /\ pc[p] = "returned"
            /\ ret[p].err = transport[p].err
            /\ ret[p].result = Nil
            /\ nIsFail[p] = 0
            /\ nParse[p] = 0

C3_Witness ==
    \E p \in Callers :
        /\ op[p] = "ListDocuments"
        /\ transport[p] # Nil
        /\ transport[p].err = [kind |-> "net", msg |-> "timeout"]
        /\ pc[p] = "returned"

\* The entry of p's handler passed its validation and built its body.
ValidationSucceeded(p) ==
    CASE op[p] = "RegisterDocument" ->
             /\ args[p].param # Nil
             /\ validation[p].stringErr = NoErr
             /\ validation[p].bodyErr = NoErr
      [] op[p] = "ListDocuments" -> validation[p].check = "ok"
      [] OTHER -> op[p] \in Ops

\* C4: an invocation calls SendRequest at most once, and exactly once when
\* validation and body construction succeed; there is no second call after
\* a transport error, a service failure or a decode failure.
C4_SendRequestAtMostOnce ==
    \A p \in Callers :
        /\ nSend[p] <= 1
        /\ (pc[p] \in {"isfail", "parse", "returned"} /\ ValidationSucceeded(p))
               => nSend[p] = 1
        /\ ~ValidationSucceeded(p) => nSend[p] = 0

C4_Witness ==
    \E p \in Callers :
        /\ op[p] = "RegisterDocument"
        /\ pc[p] = "returned"
        /\ transport[p] # Nil
        /\ transport[p].err # NoErr
        /\ nSend[p] = 1

\* C5: for the handlers with a typed result, when the transport succeeds,
\* the response is not a failure and decoding the body fails, the handler
\* returns a nil result and the decode error, which is non-nil and is not
\* the response's service error.
C5_DecodeFailureReturnsDecodeError ==
    \A p \in Callers :
        (/\ pc[p] = "returned"
         /\ HasResult(op[p])
         /\ Answered(p)
         /\ ~transport[p].resp.fail
         /\ transport[p].resp.body = "malformed") =>
            /\ ret[p].result = Nil
            /\ ret[p].err = DecodeErr
            /\ ret[p].err # NoErr
            /\ ret[p].err # transport[p].resp.serviceError

C5_Witness ==
    \E p \in Callers :
        /\ op[p] = "GetImages"
        /\ pc[p] = "returned"
        /\ Answered(p)
        /\ ~transport[p].resp.fail
        /\ transport[p].resp.body = "malformed"
        /\ nParse[p] = 1

\* The query keys of the optional modifiers.
ModifierKeys == {"https", "expireInSeconds", "status", "marker", "maxSize"}

\* The decimal text of the integers the inputs hold.
Decimal == (0 - 1 :> "-1") @@ (0 :> "0") @@ (20 :> "20") @@ (3600 :> "3600")

\* The modifiers the arguments of p's invocation supply, with their text.
SuppliedModifiers(p) ==
    LET a == args[p].param
    IN CASE op[p] = "QueryDocument" ->
                IF a = Nil THEN <<>>
                ELSE ("https" :> (IF a.Https THEN "true" ELSE "false"))
         [] op[p] = "ReadDocument" ->
                IF a = Nil THEN <<>>
                ELSE ("expireInSeconds" :> Decimal[a.ExpireInSeconds])
         [] op[p] = "ListDocuments" ->
                [k \in {x \in {"status", "marker", "maxSize"} :
                            \/ x = "status" /\ a.Status # ""
                            \/ x = "marker" /\ a.Marker # ""
                            \/ x = "maxSize" /\ a.MaxSize # 0} |->
                    CASE k = "status" -> a.Status
                      [] k = "marker" -> a.Marker
                      [] k = "maxSize" -> Decimal[a.MaxSize]]
         [] OTHER -> <<>>

\* C6: in the request handed to the transport, the query key of an optional
\* modifier is present iff the modifier was supplied (https iff queryParam is
\* non-nil, expireInSeconds iff readParam is non-nil, status / marker iff
\* non-empty, maxSize iff not 0), with the formatted value; an omitted
\* modifier is never sent, not even with an empty value.
C6_ModifierKeysIffSupplied ==
    \A p \in Callers :
        Sent(p) =>
            LET q == sentReq[p].params
                m == SuppliedModifiers(p)
            IN /\ DOMAIN q \cap ModifierKeys = DOMAIN m
               /\ \A k \in DOMAIN m : q[k] = m[k]

C6_Witness ==
    \E p \in Callers :
        /\ op[p] = "ListDocuments"
        /\ Sent(p)
        /\ args[p].param.Status = ""
        /\ sentReq[p].params = ("marker" :> "m1") @@ ("maxSize" :> "20")

\* The operation discriminators of the wire contract.
Discriminators == {"register", "publish", "read", "getImages"}

\* method, path, discriminator and presence of a body, per handler
Wire(o, documentId) ==
    CASE o = "RegisterDocument" ->
             [method |-> "POST", uri |-> "/v2/document", key |-> {"register"}, body |-> TRUE]
      [] o = "PublishDocument" ->
             [method |-> "PUT", uri |-> "/v2/document/" \o documentId, key |-> {"publish"},
              body |-> FALSE]
      [] o = "QueryDocument" ->
             [method |-> "GET", uri |-> "/v2/document/" \o documentId, key |-> {},
              body |-> FALSE]
      [] o = "ReadDocument" ->
             [method |-> "GET", uri |-> "/v2/document/" \o documentId, key |-> {"read"},
              body |-> FALSE]
      [] o = "GetImages" ->
             [method |-> "GET", uri |-> "/v2/document/" \o documentId, key |-> {"getImages"},
              body |-> FALSE]
      [] o = "DeleteDocument" ->
             [method |-> "DELETE", uri |-> "/v2/document/" \o documentId, key |-> {},
              body |-> FALSE]
      [] o = "ListDocuments" ->
             [method |-> "GET", uri |-> "/v2/document/", key |-> {}, body |-> FALSE]

\* C7: the request handed to the transport has the method, path and
\* discriminator of the wire contract (Register POST /v2/document ?register
\* with a body; Publish PUT /v2/document/{id} ?publish without one; Query GET
\* /v2/document/{id}; Read GET ?read; GetImages GET ?getImages; Delete DELETE
\* with no query key; List GET /v2/document/), and carries no discriminator
\* of another operation.
C7_WireContract ==
    \A p \in Callers :
        Sent(p) =>
            LET r == sentReq[p]
                w == Wire(op[p], args[p].documentId)
            IN /\ r.method = w.method
               /\ r.uri = w.uri
               /\ DOMAIN r.params \cap Discriminators = w.key
               /\ \A k \in w.key : r.params[k] = ""
               /\ (r.body # Nil) = w.body
               /\ op[p] = "DeleteDocument" => DOMAIN r.params = {}

C7_Witness ==
    \E p \in Callers :
        /\ op[p] = "GetImages"
        /\ Sent(p)
        /\ sentReq[p].method = "GET"
        /\ sentReq[p].uri = "/v2/document/abc123"
        /\ sentReq[p].params = ("getImages" :> "")

\* C8: PublishDocument rejects an empty documentId without sending a
\* request: no PUT to /v2/document/ with key publish reaches SendRequest.
C8_PublishRejectsEmptyId ==
    \A p \in Callers :
        (op[p] = "PublishDocument" /\ args[p].documentId = "") =>
            /\ nSend[p] = 0
            /\ ~Sent(p)

\* C9: at the moment SendRequest is called, the request of every handler but
\* ListDocuments carries Content-Type set to the default content type, and the
\* request of ListDocuments carries no Content-Type header.
C9_ContentTypeHeader ==
    \A p \in Callers :
        Sent(p) =>
            LET h == sentReq[p].headers
            IN IF op[p] = "ListDocuments"
               THEN CONTENT_TYPE \notin DOMAIN h
               ELSE /\ CONTENT_TYPE \in DOMAIN h
                    /\ h[CONTENT_TYPE] = DEFAULT_CONTENT_TYPE

C9_Witness ==
    \E p \in Callers :
        /\ op[p] = "DeleteDocument"
        /\ Sent(p)
        /\ sentReq[p].headers = ("Content-Type" :> DEFAULT_CONTENT_TYPE)
        /\ sentReq[p].params = <<>>

\* The request a handler builds when it runs alone.
RequestAlone(o, a) ==
    CASE o = "RegisterDocument" ->
             RegisterDocumentRequest(NewBodyFromString(String(a.param)))
      [] o = "PublishDocument" -> PublishDocumentRequest(a.documentId)
      [] o = "QueryDocument" -> QueryDocumentRequest(a.documentId, a.param)
      [] o = "ReadDocument" -> ReadDocumentRequest(a.documentId, a.param)
      [] o = "GetImages" -> GetImagesRequest(a.documentId)
      [] o = "DeleteDocument" -> DeleteDocumentRequest(a.documentId)
      [] o = "ListDocuments" -> ListDocumentsRequest(a.param)

\* The (result, error) a handler returns when it runs alone with arguments
\* a, collaborator answers v and transport outcome t.
ReturnAlone(o, a, v, t) ==
    LET e == CASE o = "RegisterDocument" ->
                      RegisterDocumentValidate(a.param, v.stringErr, v.bodyErr)
               [] o = "ListDocuments" -> ListDocumentsValidate(a.param, v.check)
               [] OTHER -> NoErr
    IN IF e # NoErr THEN [result |-> Nil, err |-> e]
       ELSE LET s == OnSendRequest(o, t.err)
                f == OnIsFail(o, t.resp)
            IN IF s.next = "returned" THEN s.ret
               ELSE IF f.next = "returned" THEN f.ret
               ELSE OnParseJsonBody(o, t.resp).ret

\* C10: under any interleaving of concurrent invocations, each invocation
\* has request and response descriptors of its own, and the request it hands
\* to the transport and the (result, error) it returns are those of a run
\* alone with the same parameters and the same transport response.
C10_InvocationsIndependent ==
    \A p \in Callers :
        /\ \A q \in Callers : q # p => Frame(q) # Frame(p)
        /\ Sent(p) => sentReq[p] = RequestAlone(op[p], args[p])
        /\ pc[p] = "returned" =>
               ret[p] = ReturnAlone(op[p], args[p], validation[p], transport[p])

C10_Witness ==
    \E p \in Callers, q \in Callers :
        /\ p # q
        /\ op[p] = "QueryDocument"
        /\ op[q] = "ListDocuments"
        /\ pc[p] = "returned"
        /\ ret[p].result = [type |-> "QueryDocumentResp", from |-> "{...}"]
        /\ pc[q] = "isfail"
        /\ Sent(q)

====
